---- MODULE Spec2Model ----
(***************************************************************************)
(* ba-recipe-extractor.                                                    *)
(*                                                                         *)
(* The serverless endpoint (api/recipe: allow-list, one outbound fetch,    *)
(* JSON-LD extraction, deferred log) and the browser client (src/main.ts:  *)
(* submit, share, field normalisation) as state machines.                  *)
(*                                                                         *)
(* Four specifications share the module:                                   *)
(*   SpecExtract    extractRecipeFromHtml applied to bounded documents     *)
(*   SpecNormalize  normalizeInstructions applied to bounded inputs        *)
(*   SpecServer     one request through the endpoint's fetch handler       *)
(*   SpecClient     the page: input edits, submissions, share clicks       *)
(***************************************************************************)
EXTENDS Integers, Sequences, FiniteSets, TLC

VARIABLES
    html,       \* extraction: the document handed to extractRecipeFromHtml
    recipe,     \* extraction: its completion (a JSON object, Null, or Threw)
    epc,        \* extraction: "off" | "ready" | "done"
    nvalue,     \* normalisation: the recipeInstructions value
    nresult,    \* normalisation: what normalizeInstructions returned
    npc,        \* normalisation: "off" | "ready" | "done"
    target,     \* endpoint: the request's url query parameter (None when absent)
    spc,        \* endpoint: where the fetch handler is
    outbound,   \* endpoint: the outbound fetch calls issued, in order
    upstream,   \* endpoint: how the outbound fetch and the body read went
    resp,       \* endpoint: the Response the handler returned (None before)
    microtasks, \* endpoint: promise jobs scheduled and not yet run
    logs,       \* endpoint: the records console.log wrote
    logThrew,   \* endpoint: whether the logging callback threw
    sent,       \* endpoint: what the platform delivered to the caller
    events,     \* endpoint: history of "response", "log", "sent", in order
    cpc,            \* page: "off" | "loading" (script not yet run) | "ready"
    shareAvailable, \* page: whether navigator.share exists in this browser
    inputValue,     \* page: the text in #recipe-url
    loc,            \* page: window.location, as its recipe query parameter
    status,         \* page: #status, its text and data-state
    output,         \* page: the children of #output
    inflight,       \* page: handleSubmit calls waiting for the endpoint
    pendingShare,   \* page: share/clipboard promises not yet settled
    submits,        \* page: history, the number of handleSubmit calls and the last
    done,           \* page: history, the handleSubmit call that ended last
    lastShare,      \* page: history, the last share click that got a valid URL
    lastEvent       \* page: history, what the last step was

extractVars == <<html, recipe, epc>>
normalizeVars == <<nvalue, nresult, npc>>
serverVars == <<target, spc, outbound, upstream, resp, microtasks, logs, logThrew,
                sent, events>>
clientVars == <<cpc, shareAvailable, inputValue, loc, status, output, inflight,
                pendingShare, submits, done, lastShare, lastEvent>>
vars == <<html, recipe, epc, nvalue, nresult, npc, target, spc, outbound, upstream,
          resp, microtasks, logs, logThrew, sent, events, cpc, shareAvailable,
          inputValue, loc, status, output, inflight, pendingShare, submits, done,
          lastShare, lastEvent>>

(***************************************************************************)
(* JSON values, as JSON.parse produces them.  A property that is absent    *)
(* reads as None (undefined).  Objects carry the two properties the        *)
(* extractor reads, "@type" and "@graph", and a name that tells one        *)
(* object from another.                                                    *)
(***************************************************************************)
None == [k |-> "none"]
Null == [k |-> "null"]
Threw == [k |-> "threw"]
Str(s) == [k |-> "str", s |-> s]
Arr(items) == [k |-> "arr", items |-> items]
Obj(name, type, graph) == [k |-> "obj", name |-> name, type |-> type, graph |-> graph]

Range(s) == {s[i] : i \in 1..Len(s)}

(***************************************************************************)
(* Bounded inputs: every JSON value of at most MaxNodes nodes over a small *)
(* alphabet of leaves and containers, and every document whose script      *)
(* blocks hold at most MaxNodes nodes in total.                            *)
(***************************************************************************)
MaxNodes == 4

RecipeA == Obj("a", Arr(<<Str("Article"), Str("Recipe")>>), None)
OtherO == Obj("o", Str("recipe"), Obj("n", Str("Recipe"), None))
Leaves == {RecipeA, OtherO, Str("Recipe")}
Wrap(kind, items) ==
    CASE kind = "arr" -> Arr(items)
      [] kind = "graph" -> Obj("g", None, Arr(items))
      [] kind = "recipeGraph" -> Obj("w", Str("Recipe"), Arr(items))
Containers == {"arr", "graph", "recipeGraph"}

RECURSIVE ValuesOfSize(_), ForestsOfSize(_)
ValuesOfSize(n) ==
    IF n = 1
    THEN Leaves \cup {Wrap(c, <<>>) : c \in Containers}
    ELSE {Wrap(c, f) : c \in Containers, f \in ForestsOfSize(n - 1)}
ForestsOfSize(m) ==
    IF m = 0
    THEN {<<>>}
    ELSE UNION {{<<v>> \o f : v \in ValuesOfSize(j), f \in ForestsOfSize(m - j)} :
                j \in 1..m}

LdJson == "application/ld+json"
Script(type, raw) == [type |-> type, raw |-> raw]
Json(v) == [k |-> "json", v |-> v]
Blank == [k |-> "blank"]
Empty == [k |-> "empty"]
Bad == [k |-> "bad"]
Decoy == Script("text/javascript", Json(Obj("d", Str("Recipe"), None)))
Upper == Script("APPLICATION/LD+JSON", Json(Obj("u", Str("Recipe"), None)))

BlocksOfSize(n) ==
    {Script(LdJson, Json(v)) : v \in ValuesOfSize(n)}
        \cup (IF n = 1
              THEN {Script(LdJson, Bad), Script(LdJson, Blank), Decoy, Upper}
              ELSE {})
Blocks == [n \in 1..MaxNodes |-> BlocksOfSize(n)]

RECURSIVE NodeCount(_), ForestCount(_)
NodeCount(v) ==
    IF v.k = "arr"
    THEN 1 + ForestCount(v.items)
    ELSE IF v.k = "obj" /\ v.graph.k = "arr"
         THEN 1 + ForestCount(v.graph.items)
         ELSE 1
ForestCount(f) ==
    IF f = <<>> THEN 0 ELSE NodeCount(Head(f)) + ForestCount(Tail(f))
RECURSIVE DocSize(_)
DocSize(doc) ==
    IF doc = <<>>
    THEN 0
    ELSE (IF Head(doc).raw.k = "json" THEN NodeCount(Head(doc).raw.v) ELSE 1)
             + DocSize(Tail(doc))

(***************************************************************************)
(* findJsonLdScripts: the regular expression keeps the script elements     *)
(* whose type attribute is application/ld+json in any letter case (flag    *)
(* i); the tags are stripped, the content trimmed, empty contents dropped. *)
(***************************************************************************)
ToLowerCase(s) ==
    CASE s = "APPLICATION/LD+JSON" -> "application/ld+json"
      [] s = "WWW.BONAPPETIT.COM" -> "www.bonappetit.com"
      [] s = "HTTPS" -> "https"
      [] OTHER -> s

TrimText(raw) == IF raw = Blank THEN Empty ELSE raw

findJsonLdScripts(doc) ==
    LET matches == SelectSeq(doc, LAMBDA el : ToLowerCase(el.type) = LdJson)
        contents == [i \in 1..Len(matches) |-> TrimText(matches[i].raw)]
    IN  SelectSeq(contents, LAMBDA c : c # Empty)

(***************************************************************************)
(* JSON.parse: the parsed value, or a SyntaxError.                         *)
(***************************************************************************)
JSONparse(text) ==
    IF text.k = "json" THEN [ok |-> TRUE, v |-> text.v] ELSE [ok |-> FALSE, v |-> None]

(***************************************************************************)
(* flattenJsonLd.                                                          *)
(***************************************************************************)
RECURSIVE flattenJsonLd(_), flatMapJsonLd(_)

flattenShallow(value) ==
    IF value.k = "arr"
    THEN flatMapJsonLd(value.items)
    ELSE IF value.k = "obj"
         THEN IF value.graph.k = "arr"
              THEN <<value>> \o SelectSeq(value.graph.items, LAMBDA e : e.k = "obj")
              ELSE <<value>>
         ELSE <<>>

flattenJsonLd(value) ==
    IF value.k = "arr"
    THEN flatMapJsonLd(value.items)
    ELSE IF value.k = "obj"
         THEN IF value.graph.k = "arr"
              THEN <<value>> \o flatMapJsonLd(value.graph.items)
              ELSE <<value>>
         ELSE <<>>

flatMapJsonLd(entries) ==
    IF entries = <<>>
    THEN <<>>
    ELSE flattenJsonLd(Head(entries)) \o flatMapJsonLd(Tail(entries))

(***************************************************************************)
(* isRecipe.                                                               *)
(***************************************************************************)
isRecipe(value) ==
    IF value.k # "obj"
    THEN FALSE
    ELSE IF value.type.k = "arr"
         THEN \E i \in 1..Len(value.type.items) : value.type.items[i] = Str("Recipe")
         ELSE value.type = Str("Recipe")

(***************************************************************************)
(* extractRecipeFromHtml.  collectJsonObjects is its for-loop: an empty    *)
(* block is skipped, a block whose parse throws is skipped by the catch.   *)
(***************************************************************************)
Find(objects) ==
    IF \E i \in 1..Len(objects) : isRecipe(objects[i])
    THEN objects[CHOOSE i \in 1..Len(objects) :
                    /\ isRecipe(objects[i])
                    /\ \A j \in 1..(i - 1) : ~isRecipe(objects[j])]
    ELSE None

RECURSIVE collectJsonObjects(_, _)
collectJsonObjects(scripts, jsonObjects) ==
    IF scripts = <<>>
    THEN jsonObjects
    ELSE LET trimmed == TrimText(Head(scripts))
             parsed == JSONparse(trimmed)
         IN  IF trimmed = Empty
             THEN collectJsonObjects(Tail(scripts), jsonObjects)
             ELSE IF parsed.ok
                  THEN collectJsonObjects(Tail(scripts),
                                          jsonObjects \o flattenJsonLd(parsed.v))
                  ELSE collectJsonObjects(Tail(scripts), jsonObjects)

extractWithoutCatch(doc) ==
    LET scripts == findJsonLdScripts(doc)
        found == Find(collectJsonObjects(scripts, <<>>))
    IN  IF \E i \in 1..Len(scripts) : ~JSONparse(scripts[i]).ok
        THEN Threw
        ELSE IF found = None THEN Null ELSE found

extractRecipeFromHtml(doc) ==
    LET found == Find(collectJsonObjects(findJsonLdScripts(doc), <<>>))
    IN  IF found = None THEN Null ELSE found

(***************************************************************************)
(* SpecExtract: the extractor applied to every bounded document.           *)
(***************************************************************************)
ExtractIdle == html = <<>> /\ recipe = [k |-> "none"] /\ epc = "off"
NormalizeIdle == nvalue = [k |-> "none"] /\ nresult = <<>> /\ npc = "off"
ServerIdle ==
    /\ target = [k |-> "none"]
    /\ spc = "off"
    /\ outbound = <<>>
    /\ upstream = [k |-> "none"]
    /\ resp = [k |-> "none"]
    /\ microtasks = <<>>
    /\ logs = <<>>
    /\ logThrew = FALSE
    /\ sent = [k |-> "none"]
    /\ events = <<>>
ClientIdle ==
    /\ cpc = "off"
    /\ shareAvailable = FALSE
    /\ inputValue = [k |-> "none"]
    /\ loc = [k |-> "none"]
    /\ status = [k |-> "none"]
    /\ output = <<>>
    /\ inflight = {}
    /\ pendingShare = <<>>
    /\ submits = [k |-> "none"]
    /\ done = [k |-> "none"]
    /\ lastShare = [k |-> "none"]
    /\ lastEvent = [k |-> "none"]

InitExtract ==
    /\ html = <<>>
    /\ recipe = None
    /\ epc = "ready"
    /\ NormalizeIdle
    /\ ServerIdle
    /\ ClientIdle

\* The environment writes the page, one script element after another.
AddBlock ==
    /\ epc = "ready"
    /\ \E n \in 1..(MaxNodes - DocSize(html)) : \E b \in Blocks[n] :
           html' = Append(html, b)
    /\ UNCHANGED <<recipe, epc, normalizeVars, serverVars, clientVars>>

Extract ==
    /\ epc = "ready"
    /\ recipe' = extractRecipeFromHtml(html)
    /\ epc' = "done"
    /\ UNCHANGED <<html, normalizeVars, serverVars, clientVars>>

NextExtract == AddBlock \/ Extract

SpecExtract == InitExtract /\ [][NextExtract]_vars

(***************************************************************************)
(* Document order, stated on positions.  A position is the index of a      *)
(* script element followed by the child indices leading to a node: the     *)
(* children of an array are its elements, the children of an object with a *)
(* "@graph" array are the elements of that array.  Position p precedes q   *)
(* when p is a proper prefix of q or is smaller at the first index where   *)
(* they differ.                                                            *)
(***************************************************************************)
Children(v) ==
    IF v.k = "arr"
    THEN v.items
    ELSE IF v.k = "obj" /\ v.graph.k = "arr" THEN v.graph.items ELSE <<>>

RECURSIVE NodeAt(_, _)
NodeAt(v, p) == IF p = <<>> THEN v ELSE NodeAt(Children(v)[Head(p)], Tail(p))

RECURSIVE PathsOf(_)
PathsOf(v) ==
    {<<>>} \cup UNION {{<<i>> \o p : p \in PathsOf(Children(v)[i])} :
                       i \in 1..Len(Children(v))}

RECURSIVE Precedes(_, _)
Precedes(p, q) ==
    IF p = <<>>
    THEN q # <<>>
    ELSE /\ q # <<>>
         /\ \/ Head(p) < Head(q)
            \/ Head(p) = Head(q) /\ Precedes(Tail(p), Tail(q))

Unparseable(el) == el.raw.k \in {"bad", "blank"}
IsJsonLdBlock(el) == el.type \in {LdJson, "APPLICATION/LD+JSON"}
TypedRecipe(node) ==
    /\ node.k = "obj"
    /\ \/ node.type = Str("Recipe")
       \/ node.type.k = "arr" /\ Str("Recipe") \in Range(node.type.items)

RecipePositions(doc) ==
    UNION {{<<b>> \o p : p \in {q \in PathsOf(doc[b].raw.v) :
                                    TypedRecipe(NodeAt(doc[b].raw.v, q))}} :
           b \in {i \in 1..Len(doc) : IsJsonLdBlock(doc[i]) /\ ~Unparseable(doc[i])}}
FirstPosition(ps) == CHOOSE p \in ps : \A q \in ps \ {p} : Precedes(p, q)
NodeAtPosition(doc, pos) == NodeAt(doc[Head(pos)].raw.v, Tail(pos))

\* C3: extractRecipeFromHtml returns the Recipe-typed object that comes first
\* in document order (block position, then depth-first through arrays and
\* "@graph" arrays to any depth), and null when there is none.
C3_FirstRecipeInDocumentOrder ==
    epc = "done" =>
        recipe = IF RecipePositions(html) = {}
                 THEN Null
                 ELSE NodeAtPosition(html, FirstPosition(RecipePositions(html)))

\* The Recipe returned sits two "@graph" levels deep in the second block,
\* behind a first block that holds no Recipe.
C3_Witness ==
    /\ epc = "done"
    /\ Len(html) = 2
    /\ RecipePositions(html) = {<<2, 1, 1>>}
    /\ recipe = RecipeA

\* C4: a block that fails to parse, or is empty, contributes nothing and
\* never makes the extraction throw: the result equals that of the document
\* with those blocks removed, and is null when no block parses.
C4_MalformedBlocksSkipped ==
    epc = "done" =>
        /\ recipe # Threw
        /\ recipe = extractRecipeFromHtml(SelectSeq(html, LAMBDA el : ~Unparseable(el)))
        /\ (\A i \in 1..Len(html) : ~IsJsonLdBlock(html[i]) \/ Unparseable(html[i]))
               => recipe = Null

\* A malformed block and an empty block stand before the block that holds
\* the Recipe, and the Recipe is still returned.
C4_Witness ==
    /\ epc = "done"
    /\ Len(html) = 3
    /\ html[1].raw = Bad
    /\ html[2].raw = Blank
    /\ recipe = RecipeA

(***************************************************************************)
(* Strings of the client are sequences of characters, so that trim and     *)
(* split act on them as String.prototype.trim and split(/\r?\n/) do.       *)
(***************************************************************************)
IsSpace(c) == c \in {" ", "\n", "\r"}

RECURSIVE TrimStart(_)
TrimStart(s) == IF s = <<>> \/ ~IsSpace(Head(s)) THEN s ELSE TrimStart(Tail(s))
RECURSIVE TrimEnd(_)
TrimEnd(s) ==
    IF s = <<>> \/ ~IsSpace(s[Len(s)]) THEN s ELSE TrimEnd(SubSeq(s, 1, Len(s) - 1))
Trim(s) == TrimEnd(TrimStart(s))

RECURSIVE SplitFrom(_, _, _)
SplitFrom(s, cur, out) ==
    IF s = <<>>
    THEN Append(out, cur)
    ELSE IF Head(s) = "\n"
         THEN SplitFrom(Tail(s), <<>>, Append(out, cur))
         ELSE IF Head(s) = "\r" /\ Len(s) >= 2 /\ s[2] = "\n"
              THEN SplitFrom(Tail(Tail(s)), <<>>, Append(out, cur))
              ELSE SplitFrom(Tail(s), Append(cur, Head(s)), out)
SplitLines(s) == SplitFrom(s, <<>>, <<>>)

\* JavaScript truthiness of the values the normaliser meets.
Truthy(v) == v \notin {None, Null, Str(<<>>)}

\* map((item) => item.trim()).filter(Boolean)
TrimAndFilter(items) ==
    SelectSeq([i \in 1..Len(items) |-> Trim(items[i])], LAMBDA t : t # <<>>)

\* A step object: { text?, itemListElement? }.
Step(text, itemListElement) ==
    [k |-> "obj", text |-> text, itemListElement |-> itemListElement]
TextOf(item) == IF item.k = "obj" THEN item.text ELSE None
ItemListElementOf(item) == IF item.k = "obj" THEN item.itemListElement ELSE None

(***************************************************************************)
(* normalizeInstructions.  stepContribution is the flatMap callback.       *)
(***************************************************************************)
stepContributionIfTextPresent(item) ==
    IF item.k = "str"
    THEN <<item.s>>
    ELSE IF TextOf(item).k = "str"
         THEN <<TextOf(item).s>>
         ELSE IF ItemListElementOf(item).k = "str"
              THEN <<ItemListElementOf(item).s>>
              ELSE <<>>

stepContribution(item) ==
    IF item.k = "str"
    THEN <<item.s>>
    ELSE IF Truthy(TextOf(item))
         THEN <<TextOf(item).s>>
         ELSE IF ItemListElementOf(item).k = "str"
              THEN <<ItemListElementOf(item).s>>
              ELSE <<>>

RECURSIVE flatMapSteps(_)
flatMapSteps(items) ==
    IF items = <<>>
    THEN <<>>
    ELSE stepContribution(Head(items)) \o flatMapSteps(Tail(items))

normalizeInstructions(value) ==
    IF ~Truthy(value)
    THEN <<>>
    ELSE IF value.k = "str"
         THEN TrimAndFilter(SplitLines(value.s))
         ELSE IF value.k = "arr"
              THEN TrimAndFilter(flatMapSteps(value.items))
              ELSE IF Truthy(value.text)
                   THEN SelectSeq(<<Trim(value.text.s)>>, LAMBDA t : t # <<>>)
                   ELSE <<>>

(***************************************************************************)
(* SpecNormalize: normalizeInstructions applied to every recipeInstructions *)
(* value of the shapes the Recipe type allows: absent, a string, a single  *)
(* step object, or an array of up to MaxSteps strings, step objects and    *)
(* nulls.                                                                  *)
(***************************************************************************)
MaxSteps == 3

StepTexts == {<<>>, <<" ">>, <<"a">>, <<" ", "b", " ">>}
StepObjects ==
    {Step(t, e) : t \in {None} \cup {Str(x) : x \in StepTexts},
                  e \in {None, Str(<<"c">>), Arr(<<>>)}}
StepElements == {Str(x) : x \in StepTexts} \cup StepObjects \cup {Null}
InstructionStrings ==
    {Str(x) : x \in StepTexts \cup {<<"a", "\n", "b">>,
                                    <<"a", " ", "\r", "\n", "\n", " ", "b", "\n">>,
                                    <<"a", "\r", "b">>}}

InitNormalize ==
    /\ nvalue \in {None, Arr(<<>>)} \cup InstructionStrings \cup StepObjects
    /\ nresult = <<>>
    /\ npc = "ready"
    /\ ExtractIdle
    /\ ServerIdle
    /\ ClientIdle

\* The publisher's markup lists one more step.
AddStep ==
    /\ npc = "ready"
    /\ nvalue.k = "arr"
    /\ Len(nvalue.items) < MaxSteps
    /\ \E e \in StepElements : nvalue' = Arr(Append(nvalue.items, e))
    /\ UNCHANGED <<nresult, npc, extractVars, serverVars, clientVars>>

Normalize ==
    /\ npc = "ready"
    /\ nresult' = normalizeInstructions(nvalue)
    /\ npc' = "done"
    /\ UNCHANGED <<nvalue, extractVars, serverVars, clientVars>>

NextNormalize == AddStep \/ Normalize

SpecNormalize == InitNormalize /\ [][NextNormalize]_vars

(***************************************************************************)
(* The per-element precedence of C8, as a table on the element's shape.    *)
(***************************************************************************)
HasTextField(item) == item.k = "obj" /\ item.text # None
HasNonEmptyText(item) == item.k = "obj" /\ item.text.k = "str" /\ item.text.s # <<>>
HasStringItemList(item) == item.k = "obj" /\ item.itemListElement.k = "str"

\* What one element contributes when an object that has a text field
\* contributes that text and nothing else.
ClaimedEntry(item) ==
    CASE item.k = "str" -> <<Trim(item.s)>>
      [] HasTextField(item) -> <<Trim(item.text.s)>>
      [] HasStringItemList(item) -> <<Trim(item.itemListElement.s)>>
      [] OTHER -> <<>>

\* What one element contributes when the text wins only if it is non-empty.
AmendedEntry(item) ==
    CASE item.k = "str" -> <<Trim(item.s)>>
      [] HasNonEmptyText(item) -> <<Trim(item.text.s)>>
      [] HasStringItemList(item) -> <<Trim(item.itemListElement.s)>>
      [] OTHER -> <<>>

RECURSIVE Concat(_)
Concat(parts) == IF parts = <<>> THEN <<>> ELSE Head(parts) \o Concat(Tail(parts))
NonEmptyOnly(entry) == SelectSeq(entry, LAMBDA t : t # <<>>)
ClaimedEntries(items) ==
    Concat([i \in 1..Len(items) |-> NonEmptyOnly(ClaimedEntry(items[i]))])
AmendedEntries(items) ==
    Concat([i \in 1..Len(items) |-> NonEmptyOnly(AmendedEntry(items[i]))])

\* C8 as stated: for an array, the output is the in-order concatenation of
\* each element's trimmed non-empty contribution, where an object that has a
\* text field contributes that text and nothing else, even when it is empty.
C8_TextFieldAlwaysWins ==
    (npc = "done" /\ nvalue.k = "arr") =>
        nresult = ClaimedEntries(nvalue.items)

\* C8 amended: the same, except that the text wins only when it is a
\* non-empty string; an object whose text is absent or empty contributes its
\* string itemListElement.  The output holds trimmed non-empty strings, at
\* most one per input element.
C8_NonEmptyTextWins ==
    (npc = "done" /\ nvalue.k = "arr") =>
        /\ nresult = AmendedEntries(nvalue.items)
        /\ Len(nresult) <= Len(nvalue.items)
        /\ \A i \in 1..Len(nresult) : nresult[i] # <<>> /\ Trim(nresult[i]) = nresult[i]

\* An array whose first element has an empty text and a string
\* itemListElement, normalised: the itemListElement is the first entry.
C8_Witness ==
    /\ npc = "done"
    /\ nvalue.k = "arr"
    /\ Len(nvalue.items) = 3
    /\ nvalue.items[1] = Step(Str(<<>>), Str(<<"c">>))
    /\ nvalue.items[2] = Str(<<" ", "b", " ">>)
    /\ nvalue.items[3] = Step(Str(<<"a">>), Str(<<"c">>))
    /\ nresult = <<<<"c">>, <<"b">>, <<"a">>>>

(***************************************************************************)
(* The endpoint.  The url parameter is text of the form                    *)
(* scheme://userinfo@host/path; a text with no scheme, or with an empty    *)
(* host or a space in the host, does not parse as an absolute URL.  The    *)
(* URL parser lower-cases scheme and host; the hostname excludes the       *)
(* userinfo.                                                               *)
(***************************************************************************)
UrlText(scheme, user, host, path) ==
    [k |-> "str", scheme |-> scheme, user |-> user, host |-> host, path |-> path]
EmptyText == [k |-> "str", scheme |-> "", user |-> "", host |-> "", path |-> ""]

\* new URL(text): the parsed URL, or a TypeError.
URLparse(text) ==
    IF text.scheme = "" \/ text.host \in {"", "a b"}
    THEN [ok |-> FALSE, hostname |-> "", href |-> None]
    ELSE [ok |-> TRUE,
          hostname |-> ToLowerCase(text.host),
          href |-> UrlText(ToLowerCase(text.scheme), text.user, ToLowerCase(text.host),
                           text.path)]

ALLOWED_HOSTS == {"bonappetit.com", "www.bonappetit.com"}

hostContainsPublisher(hostname) ==
    hostname \in {"bonappetit.com", "www.bonappetit.com", "bonappetit.com.evil.com"}

hostAllowed(hostname) == hostname \in ALLOWED_HOSTS

\* response.ok
statusOkAlways(code) == TRUE

statusOk(code) == code \in 200..299

TextResponse(text, embedded, code) ==
    [status |-> code,
     body |-> [k |-> "text", text |-> text, embedded |-> embedded],
     headers |-> {}]
JsonResponse(value, code, headers) ==
    [status |-> code, body |-> [k |-> "json", v |-> value], headers |-> headers]

Targets ==
    {None, EmptyText}
        \cup {UrlText(sc, u, h, pa) :
                sc \in {"https", "http", ""},
                u \in {"", "bonappetit.com"},
                h \in {"bonappetit.com", "www.bonappetit.com", "WWW.BONAPPETIT.COM",
                       "evil.com", "bonappetit.com.evil.com", ""},
                pa \in {"/", "/recipe/x"}}
UpstreamStatuses == {200, 204, 301, 404, 500}
SamplePages ==
    {<<>>,
     <<Decoy>>,
     <<Script(LdJson, Bad)>>,
     <<Script(LdJson, Json(OtherO))>>,
     <<Script(LdJson, Json(RecipeA))>>,
     <<Script(LdJson, Bad),
       Script(LdJson, Json(Wrap("graph", <<OtherO, Wrap("graph", <<RecipeA>>)>>)))>>}

InitServer ==
    /\ target \in Targets
    /\ spc = "start"
    /\ outbound = <<>>
    /\ upstream = [fetch |-> "pending", status |-> 0, text |-> "pending"]
    /\ resp = None
    /\ microtasks = <<>>
    /\ logs = <<>>
    /\ logThrew = FALSE
    /\ sent = None
    /\ events = <<>>
    /\ html = <<>>
    /\ recipe = None
    /\ epc = "off"
    /\ NormalizeIdle
    /\ ClientIdle

\* fetch, lines 25-50: the parameter checks, then the one outbound fetch.
Validate ==
    /\ spc = "start"
    /\ IF target = None \/ target = EmptyText
       THEN /\ resp' = TextResponse("Missing url parameter.", None, 400)
            /\ spc' = "returned"
            /\ events' = Append(events, "response")
            /\ UNCHANGED outbound
       ELSE IF ~URLparse(target).ok
            THEN /\ resp' = TextResponse("Invalid url parameter.", None, 400)
                 /\ spc' = "returned"
                 /\ events' = Append(events, "response")
                 /\ UNCHANGED outbound
            ELSE IF ~hostAllowed(URLparse(target).hostname)
                 THEN /\ resp' = TextResponse("Only bonappetit.com URLs are allowed.",
                                              None, 400)
                      /\ spc' = "returned"
                      /\ events' = Append(events, "response")
                      /\ UNCHANGED outbound
                 ELSE /\ outbound' = Append(outbound,
                                            [url |-> URLparse(target).href,
                                             method |-> "GET",
                                             headers |-> {"user-agent", "accept"}])
                      /\ spc' = "fetching"
                      /\ UNCHANGED <<resp, events>>
    /\ UNCHANGED <<target, upstream, microtasks, logs, logThrew, sent, html, recipe,
                   epc, normalizeVars, clientVars>>

\* await fetch(...), line 45: the promise rejects and the rejection leaves the
\* handler, which has no try around it.
FetchRejects ==
    /\ spc = "fetching"
    /\ upstream' = [upstream EXCEPT !.fetch = "rejected"]
    /\ spc' = "threw"
    /\ UNCHANGED <<target, outbound, resp, microtasks, logs, logThrew, sent, events,
                   html, recipe, epc, normalizeVars, clientVars>>

\* await fetch(...) resolves, lines 45-58: a status that is not ok ends the
\* request with 502; otherwise the body read starts.
FetchResolves ==
    /\ spc = "fetching"
    /\ \E s \in UpstreamStatuses :
          /\ upstream' = [upstream EXCEPT !.fetch = "resolved", !.status = s]
          /\ IF ~statusOk(s)
             THEN /\ resp' = TextResponse("Upstream request failed", s, 502)
                  /\ spc' = "returned"
                  /\ events' = Append(events, "response")
             ELSE /\ spc' = "reading"
                  /\ UNCHANGED <<resp, events>>
    /\ UNCHANGED <<target, outbound, microtasks, logs, logThrew, sent, html, recipe,
                   epc, normalizeVars, clientVars>>

\* await response.text(), line 58, rejects: again nothing catches it.
TextRejects ==
    /\ spc = "reading"
    /\ upstream' = [upstream EXCEPT !.text = "rejected"]
    /\ spc' = "threw"
    /\ UNCHANGED <<target, outbound, resp, microtasks, logs, logThrew, sent, events,
                   html, recipe, epc, normalizeVars, clientVars>>

LogRecord(found) ==
    [target |-> URLparse(target).href,
     status |-> upstream.status,
     recipeFound |-> found # Null]

ResponseFor(found) ==
    IF found = Null
    THEN TextResponse("No Recipe JSON-LD found on that page.", None, 422)
    ELSE JsonResponse(found, 200, {<<"cache-control", "no-store">>})

\* The same continuation with the log written in line, before the return: a
\* throw of the logging call then leaves the handler.
TextResolvesLogInline ==
    /\ spc = "reading"
    /\ \E page \in SamplePages : \E throws \in BOOLEAN :
          /\ html' = page
          /\ recipe' = extractRecipeFromHtml(page)
          /\ upstream' = [upstream EXCEPT !.text = "resolved"]
          /\ logThrew' = throws
          /\ IF throws
             THEN /\ spc' = "threw"
                  /\ events' = Append(events, "log")
                  /\ UNCHANGED <<logs, resp>>
             ELSE /\ logs' = Append(logs, LogRecord(extractRecipeFromHtml(page)))
                  /\ resp' = ResponseFor(extractRecipeFromHtml(page))
                  /\ spc' = "returned"
                  /\ events' = events \o <<"log", "response">>
    /\ UNCHANGED <<target, outbound, microtasks, sent, epc, normalizeVars, clientVars>>

\* await response.text() resolves, lines 58-82, run to the return: extract,
\* hand waitUntil the promise whose then-callback logs (the callback is a
\* promise job, queued, not run), build and return the Response.
TextResolves ==
    /\ spc = "reading"
    /\ \E page \in SamplePages :
          /\ html' = page
          /\ recipe' = extractRecipeFromHtml(page)
          /\ upstream' = [upstream EXCEPT !.text = "resolved"]
          /\ microtasks' = Append(microtasks, LogRecord(extractRecipeFromHtml(page)))
          /\ resp' = ResponseFor(extractRecipeFromHtml(page))
          /\ spc' = "returned"
          /\ events' = Append(events, "response")
    /\ UNCHANGED <<target, outbound, logs, logThrew, sent, epc, normalizeVars, clientVars>>

\* The queued callback of lines 62-68 runs: console.log writes the record, or
\* throws, which rejects the promise waitUntil holds and reaches nothing else.
RunLog ==
    /\ microtasks # <<>>
    /\ \E throws \in BOOLEAN :
          /\ logThrew' = throws
          /\ logs' = IF throws THEN logs ELSE Append(logs, Head(microtasks))
    /\ microtasks' = Tail(microtasks)
    /\ events' = Append(events, "log")
    /\ UNCHANGED <<target, spc, outbound, upstream, resp, sent, html, recipe, epc,
                   normalizeVars, clientVars>>

\* The platform, which awaits the handler's promise, delivers the Response it
\* resolved with; a rejected handler promise is the platform's to report.
Deliver ==
    /\ spc \in {"returned", "threw"}
    /\ sent = None
    /\ sent' = IF spc = "returned" THEN resp ELSE [k |-> "unhandled"]
    /\ events' = Append(events, "sent")
    /\ UNCHANGED <<target, spc, outbound, upstream, resp, microtasks, logs, logThrew,
                   html, recipe, epc, normalizeVars, clientVars>>

NextServer ==
    \/ Validate
    \/ FetchRejects
    \/ FetchResolves
    \/ TextRejects
    \/ TextResolves
    \/ RunLog
    \/ Deliver

SpecServer == InitServer /\ [][NextServer]_vars

(***************************************************************************)
(* The page (src/main.ts).  Texts shown in a card are sequences of tokens  *)
(* (a run of characters, or one white-space character), as in the          *)
(* normalisers above; status messages and response bodies are strings.     *)
(***************************************************************************)
Origin == [scheme |-> "https", host |-> "ba-recipe-extractor.vercel.app"]
Whitespace == [k |-> "str", scheme |-> "", user |-> "", host |-> "", path |-> " "]

\* value.trim()
TrimUrlText(value) == IF value = Whitespace THEN EmptyText ELSE value
\* trimmed.startsWith("/")
StartsWithSlash(value) == value.scheme = "" /\ value.host = "" /\ value.path # ""

\* normalizeUrl: the URL as a string, or the Error it throws.
normalizeUrl(value) ==
    LET trimmed == TrimUrlText(value)
        normalized == IF ToLowerCase(trimmed.scheme) \in {"http", "https"}
                      THEN trimmed
                      ELSE [trimmed EXCEPT !.scheme = "https"]
    IN  IF trimmed = EmptyText
        THEN [ok |-> FALSE, url |-> None, message |-> "Please enter a recipe URL."]
        ELSE IF StartsWithSlash(trimmed)
             THEN [ok |-> TRUE,
                   url |-> UrlText(Origin.scheme, "", Origin.host, trimmed.path),
                   message |-> ""]
             ELSE IF URLparse(normalized).ok
                  THEN [ok |-> TRUE, url |-> URLparse(normalized).href, message |-> ""]
                  ELSE [ok |-> FALSE, url |-> None,
                        message |-> "That does not look like a valid URL."]

\* getInitialUrl: params.get("recipe") ?? ""
getInitialUrl(location) == IF location.recipe = None THEN EmptyText ELSE location.recipe

buildShareUrlUnset(location, recipeUrl) == location

\* buildShareUrl: the page's URL with its recipe parameter set.
buildShareUrl(location, recipeUrl) == [location EXCEPT !.recipe = recipeUrl]

\* updateShareUrl: history.replaceState to the share URL.
updateShareUrl(location, recipeUrl) == buildShareUrl(location, recipeUrl)

setStatus(message, state) == [message |-> message, state |-> state]

createTextBlock(tag, text, className) == [tag |-> tag, class |-> className, text |-> text]

renderEmptyAppend(out, message) == Append(out, createTextBlock("p", message, "empty"))

\* renderEmpty: the panel is cleared, then holds the one note.
renderEmpty(out, message) == <<createTextBlock("p", message, "empty")>>

\* join(", ")
RECURSIVE Join(_)
Join(texts) ==
    IF texts = <<>>
    THEN <<>>
    ELSE IF Len(texts) = 1
         THEN Head(texts)
         ELSE Head(texts) \o <<",", " ">> \o Join(Tail(texts))

\* formatMaybeArray
formatMaybeArray(value) ==
    IF ~Truthy(value)
    THEN None
    ELSE IF value.k = "arr"
         THEN Str(Join([i \in 1..Len(value.items) |-> value.items[i].s]))
         ELSE value

\* formatAuthor
formatAuthor(author) ==
    IF ~Truthy(author)
    THEN None
    ELSE IF author.k = "arr"
         THEN LET names == [i \in 1..Len(author.items) |->
                               IF author.items[i].k = "obj"
                               THEN author.items[i].name
                               ELSE None]
                  present == SelectSeq(names, LAMBDA n : Truthy(n))
              IN  Str(Join([i \in 1..Len(present) |-> present[i].s]))
         ELSE author.name

\* resolveImageUrl
resolveImageUrl(value) ==
    IF ~Truthy(value)
    THEN Null
    ELSE IF value.k = "str"
         THEN value
         ELSE IF value.k = "arr"
              THEN IF value.items = <<>>
                   THEN Null
                   ELSE IF Head(value.items).k = "str"
                        THEN Head(value.items)
                        ELSE IF Head(value.items).k = "obj" /\ Head(value.items).url # None
                             THEN Head(value.items).url
                             ELSE Null
              ELSE IF value.url # None THEN value.url ELSE Null

\* buildImage
buildImage(image) ==
    IF ~Truthy(resolveImageUrl(image))
    THEN Null
    ELSE [tag |-> "figure", class |-> "recipe-media", src |-> resolveImageUrl(image).s]

\* createMetaItem
createMetaItem(label, value) ==
    [label |-> label,
     value |-> IF Truthy(value) /\ Len(value.s) > 0 THEN value.s ELSE <<"\\u2014">>]

\* buildList
buildList(title, items, ordered) ==
    [heading |-> title,
     tag |-> IF items = <<>> THEN "p" ELSE IF ordered THEN "ol" ELSE "ul",
     items |-> IF items = <<>> THEN <<<<"No items found.">>>> ELSE items]

\* normalizeIngredients: the list, or the TypeError of calling trim on an
\* element that is no string.
normalizeIngredients(value) ==
    IF ~Truthy(value)
    THEN [threw |-> FALSE, items |-> <<>>]
    ELSE IF value.k = "arr"
         THEN IF \E i \in 1..Len(value.items) : value.items[i].k # "str"
              THEN [threw |-> TRUE, items |-> <<>>]
              ELSE [threw |-> FALSE,
                    items |-> TrimAndFilter([i \in 1..Len(value.items) |->
                                                value.items[i].s])]
         ELSE [threw |-> FALSE, items |-> TrimAndFilter(SplitLines(value.s))]

RecipeCard(r) ==
    [tag |-> "article",
     class |-> "recipe-card",
     title |-> createTextBlock("h2",
                               IF r.name \in {None, Null}
                               THEN <<"Untitled recipe">>
                               ELSE r.name.s,
                               ""),
     description |-> IF Truthy(r.description)
                     THEN createTextBlock("p", r.description.s, "description")
                     ELSE Null,
     media |-> buildImage(r.image),
     meta |-> <<createMetaItem("Yield", formatMaybeArray(r.recipeYield)),
                createMetaItem("Prep", r.prepTime),
                createMetaItem("Cook", r.cookTime),
                createMetaItem("Total", r.totalTime),
                createMetaItem("Author", formatAuthor(r.author))>>,
     ingredients |-> buildList("Ingredients",
                               normalizeIngredients(r.recipeIngredient).items, FALSE),
     instructions |-> buildList("Instructions",
                                normalizeInstructions(r.recipeInstructions), TRUE)]

renderRecipeNoClear(out, r) ==
    IF normalizeIngredients(r.recipeIngredient).threw
    THEN [threw |-> TRUE, message |-> "item.trim is not a function", out |-> out]
    ELSE [threw |-> FALSE, message |-> "", out |-> Append(out, RecipeCard(r))]

\* renderRecipe: the panel is cleared, the card is built (which may throw)
\* and appended.
renderRecipe(out, r) ==
    IF normalizeIngredients(r.recipeIngredient).threw
    THEN [threw |-> TRUE, message |-> "item.trim is not a function", out |-> <<>>]
    ELSE [threw |-> FALSE, message |-> "", out |-> <<RecipeCard(r)>>]

\* Request failed (${res.status}).
RequestFailed(code) ==
    CASE code = 400 -> "Request failed (400)."
      [] code = 422 -> "Request failed (422)."
      [] code = 500 -> "Request failed (500)."
      [] code = 502 -> "Request failed (502)."

\* fetchRecipe, from the outcome of fetch(apiUrl) on: the record, or the
\* Error thrown.  A body that cannot be read counts as "".
fetchRecipe(outcome) ==
    CASE outcome.k = "rejected" ->
            [ok |-> FALSE, r |-> None, message |-> "Failed to fetch"]
      [] outcome.k = "status" ->
            [ok |-> FALSE, r |-> None,
             message |-> IF outcome.readable /\ outcome.body # ""
                         THEN outcome.body
                         ELSE RequestFailed(outcome.status)]
      [] outcome.k = "badjson" ->
            [ok |-> FALSE, r |-> None, message |-> "Unexpected end of JSON input"]
      [] outcome.k = "recipe" ->
            [ok |-> TRUE, r |-> outcome.r, message |-> ""]

\* What the share listener does to window.location: nothing.
locationAfterShare(location, recipeUrl) == location

\* if (navigator.share) ... return; else navigator.clipboard.writeText
shareInvocationsBoth(available, link) ==
    IF available
    THEN <<[via |-> "native", link |-> link], [via |-> "clipboard", link |-> link]>>
    ELSE <<[via |-> "clipboard", link |-> link]>>

shareInvocations(available, link) ==
    IF available
    THEN <<[via |-> "native", link |-> link]>>
    ELSE <<[via |-> "clipboard", link |-> link]>>

(***************************************************************************)
(* SpecClient: the page from its load on.  The user edits the input,       *)
(* submits the form at most MaxSubmits times in all (the submission of the *)
(* page load included) and clicks share while fewer than MaxShares share   *)
(* promises are unsettled; the endpoint's answers and the share promises   *)
(* settle in any order.                                                    *)
(***************************************************************************)
MaxSubmits == 2
MaxShares == 1

Chars(c) == Str(<<c>>)
ClientRecipe(name, ingredient, instructions, author) ==
    [name |-> name, description |-> None, image |-> None, recipeYield |-> None,
     prepTime |-> None, cookTime |-> None, totalTime |-> None, author |-> author,
     recipeIngredient |-> ingredient, recipeInstructions |-> instructions]
SoupRecipe ==
    [ClientRecipe(Chars("Soup"),
                  Str(<<"2", " ", "eggs", "\n", "1", " ", "cup", "\n", "\n">>),
                  Arr(<<Step(Chars("Preheat"), None), Chars("Mix"),
                        Step(None, Chars("Bake")), Step(None, None)>>),
                  Arr(<<[k |-> "obj", name |-> Chars("Ann")],
                        [k |-> "obj", name |-> None],
                        [k |-> "obj", name |-> Chars("Bo")]>>))
        EXCEPT !.image = Arr(<<[k |-> "obj", url |-> Chars("https://x/1.jpg")],
                               [k |-> "obj", url |-> Chars("https://x/2.jpg")]>>),
               !.recipeYield = Arr(<<Chars("4"), Chars("servings")>>),
               !.description = Chars("Warm")]
BareRecipe == ClientRecipe(None, None, None, None)
BrokenRecipe ==
    ClientRecipe(Chars("Stew"), Arr(<<Chars("salt"), Null>>), None, None)

Outcomes ==
    {[k |-> "rejected"],
     [k |-> "status", status |-> 502, readable |-> TRUE,
      body |-> "Upstream request failed (404)."],
     [k |-> "status", status |-> 500, readable |-> FALSE, body |-> ""],
     [k |-> "badjson"],
     [k |-> "recipe", r |-> SoupRecipe],
     [k |-> "recipe", r |-> BareRecipe],
     [k |-> "recipe", r |-> BrokenRecipe]}

BareInput == UrlText("", "", "www.bonappetit.com", "/recipe/x")
AbsoluteInput == UrlText("HTTPS", "", "WWW.BONAPPETIT.COM", "/recipe/y")
PlainInput == UrlText("http", "", "bonappetit.com", "/recipe/x")
PathInput == UrlText("", "", "", "/recipe/z")
InvalidInput == UrlText("https", "", "a b", "/")
Inputs == {AbsoluteInput, PlainInput}
InitialParams == {None, Whitespace, BareInput, PathInput, InvalidInput}

\* <input type="url" required>: the browser fires submit only for a value
\* that is a valid absolute URL.
SubmittableInput(value) == value.scheme # "" /\ URLparse(value).ok

TryAgain == "Double-check the URL and try again."

InitClient ==
    /\ cpc = "loading"
    /\ shareAvailable \in BOOLEAN
    /\ inputValue = EmptyText
    /\ loc \in {[path |-> "/", recipe |-> q] : q \in InitialParams}
    /\ status = [message |-> "", state |-> "none"]
    /\ output = <<createTextBlock("p",
                                  "No recipe yet. Paste a link above to get started.",
                                  "empty")>>
    /\ inflight = {}
    /\ pendingShare = <<>>
    /\ submits = [n |-> 0, ok |-> FALSE, url |-> None, outcome |-> None]
    /\ done = None
    /\ lastShare = None
    /\ lastEvent = [k |-> "none", id |-> 0, cause |-> "", shareSince |-> FALSE]
    /\ ExtractIdle
    /\ NormalizeIdle
    /\ ServerIdle

\* handleSubmit, lines 104-110, up to the await of fetchRecipe; or, when
\* normalizeUrl throws, through the catch to the end.
handleSubmitStart(value) ==
    LET n == normalizeUrl(value)
        id == submits.n + 1
    IN  /\ submits' = [n |-> id, ok |-> n.ok, url |-> n.url, outcome |-> None]
        /\ IF n.ok
           THEN /\ status' = setStatus("Fetching recipe...", "loading")
                /\ output' = <<>>
                /\ loc' = updateShareUrl(loc, n.url)
                /\ inflight' = inflight \cup {[id |-> id, url |-> n.url]}
                /\ UNCHANGED done
                /\ lastEvent' = [k |-> "submitted", id |-> id, cause |-> "",
                                 shareSince |-> FALSE]
           ELSE /\ status' = setStatus(n.message, "error")
                /\ output' = renderEmpty(<<>>, TryAgain)
                /\ done' = [id |-> id, outcome |-> [k |-> "invalid"]]
                /\ UNCHANGED <<loc, inflight>>
                /\ lastEvent' = [k |-> "failed", id |-> id, cause |-> "normalize",
                                 shareSince |-> FALSE]

\* Lines 95-101: the script's run at page load.
PageLoad ==
    /\ cpc = "loading"
    /\ cpc' = "ready"
    /\ IF getInitialUrl(loc) # EmptyText
       THEN /\ inputValue' = getInitialUrl(loc)
            /\ handleSubmitStart(getInitialUrl(loc))
       ELSE UNCHANGED <<inputValue, status, output, loc, inflight, submits, done,
                        lastEvent>>
    /\ UNCHANGED <<shareAvailable, pendingShare, lastShare, extractVars,
                   normalizeVars, serverVars>>

\* The user edits the input.
TypeInput ==
    /\ cpc = "ready"
    /\ \E v \in Inputs \ {inputValue} : inputValue' = v
    /\ UNCHANGED <<cpc, shareAvailable, loc, status, output, inflight, pendingShare,
                   submits, done, lastShare, lastEvent, extractVars, normalizeVars,
                   serverVars>>

\* Lines 71-74: the submit listener.
Submit ==
    /\ cpc = "ready"
    /\ submits.n < MaxSubmits
    /\ SubmittableInput(inputValue)
    /\ handleSubmitStart(inputValue)
    /\ UNCHANGED <<cpc, shareAvailable, inputValue, pendingShare, lastShare,
                   extractVars, normalizeVars, serverVars>>

\* handleSubmit, lines 110-118, from the settling of fetch(apiUrl) on.  The
\* awaits inside fetchRecipe touch nothing of the page, so the call's
\* continuations are taken in one step.
Complete ==
    /\ \E call \in inflight : \E outcome \in Outcomes :
          LET fetched == fetchRecipe(outcome)
              rendered == renderRecipe(output, fetched.r)
          IN  /\ inflight' = inflight \ {call}
              /\ done' = [id |-> call.id, outcome |-> outcome]
              /\ submits' = IF call.id = submits.n
                            THEN [submits EXCEPT !.outcome = outcome]
                            ELSE submits
              /\ IF fetched.ok /\ ~rendered.threw
                 THEN /\ status' = setStatus("Recipe extracted successfully.", "success")
                      /\ output' = rendered.out
                      /\ lastEvent' = [k |-> "rendered", id |-> call.id, cause |-> "",
                                       shareSince |-> FALSE]
                 ELSE /\ status' = setStatus(IF fetched.ok
                                             THEN rendered.message
                                             ELSE fetched.message,
                                             "error")
                      /\ output' = renderEmpty(IF fetched.ok THEN rendered.out ELSE output,
                                               TryAgain)
                      /\ lastEvent' = [k |-> "failed", id |-> call.id,
                                       cause |-> IF fetched.ok THEN "render" ELSE outcome.k,
                                       shareSince |-> FALSE]
    /\ UNCHANGED <<cpc, shareAvailable, inputValue, loc, pendingShare, lastShare,
                   extractVars, normalizeVars, serverVars>>

\* Lines 76-88: the share listener up to its await.  normalizeUrl is called
\* outside the try: when it throws, the listener ends there.  The listener
\* calls buildShareUrl, not updateShareUrl: the location is not touched.
ShareClick ==
    /\ cpc = "ready"
    /\ Len(pendingShare) < MaxShares
    /\ normalizeUrl(inputValue).ok
    /\ LET url == normalizeUrl(inputValue).url
           calls == shareInvocations(shareAvailable, buildShareUrl(loc, url))
       IN  /\ pendingShare' = Append(pendingShare, calls[Len(calls)].via)
           /\ loc' = locationAfterShare(loc, url)
           /\ lastShare' = [url |-> url, locBefore |-> loc,
                            locAfter |-> locationAfterShare(loc, url), calls |-> calls]
    /\ UNCHANGED <<cpc, shareAvailable, inputValue, status, output, inflight, submits,
                   done, lastEvent, extractVars, normalizeVars, serverVars>>

\* Lines 85-92: the awaited share or clipboard promise settles.  lastShare
\* records the share action under way; it ends with its last promise.
ShareSettles ==
    /\ pendingShare # <<>>
    /\ \E i \in 1..Len(pendingShare) : \E fulfilled \in BOOLEAN :
          /\ pendingShare' = SubSeq(pendingShare, 1, i - 1)
                                \o SubSeq(pendingShare, i + 1, Len(pendingShare))
          /\ status' = IF ~fulfilled
                       THEN setStatus("Could not share the link.", "error")
                       ELSE IF pendingShare[i] = "native"
                            THEN setStatus("Share sheet opened.", "success")
                            ELSE setStatus("Share link copied to clipboard.", "success")
    /\ lastEvent' = [lastEvent EXCEPT !.shareSince = TRUE]
    /\ lastShare' = IF Len(pendingShare) = 1 THEN None ELSE lastShare
    /\ UNCHANGED <<cpc, shareAvailable, inputValue, loc, output, inflight, submits,
                   done, extractVars, normalizeVars, serverVars>>

NextClient ==
    \/ PageLoad
    \/ TypeInput
    \/ Submit
    \/ Complete
    \/ ShareClick
    \/ ShareSettles

SpecClient == InitClient /\ [][NextClient]_vars

(***************************************************************************)
(* Claims about the page.                                                  *)
(***************************************************************************)
TryAgainNote == [tag |-> "p", class |-> "empty", text |-> TryAgain]

\* The record renders: its ingredient list, if a list, holds strings only.
Renders(r) ==
    ~(/\ r.recipeIngredient.k = "arr"
      /\ \E i \in 1..Len(r.recipeIngredient.items) : r.recipeIngredient.items[i].k # "str")
\* The extraction that met this outcome succeeded.
Succeeds(o) == o.k = "recipe" /\ Renders(o.r)
ExpectedTitle(r) == IF r.name = None THEN <<"Untitled recipe">> ELSE r.name.s

PanelShows(o) ==
    IF Succeeds(o)
    THEN /\ Len(output) = 1
         /\ output[1].tag = "article"
         /\ output[1].title.text = ExpectedTitle(o.r)
    ELSE output = <<TryAgainNote>>
StatusShows(o) ==
    IF Succeeds(o)
    THEN status = [message |-> "Recipe extracted successfully.", state |-> "success"]
    ELSE status.state = "error" /\ status.message # ""

\* The last step of any handleSubmit call was the end of a call (no newer
\* submission has cleared the panel since).
EndedLast == done # None /\ lastEvent.k # "submitted"

\* C6: every failure path of an extraction (normalizeUrl throws, the network
\* call rejects, the endpoint answers a non-success status, the body is no
\* JSON, rendering throws) ends with the panel holding only the "try again"
\* note, never a card, and with the status in state "error" carrying one
\* message (until a share action, if any, writes the status).
C6_FailureShowsTryAgain ==
    (EndedLast /\ ~Succeeds(done.outcome)) =>
        /\ output = <<TryAgainNote>>
        /\ ~lastEvent.shareSince => status.state = "error" /\ status.message # ""

\* The later of two extractions rendered its card, then the earlier one
\* threw while rendering: the panel holds the note alone.
C6_Witness ==
    /\ submits.n = 2
    /\ inflight = {}
    /\ done.id = 1
    /\ done.outcome = [k |-> "recipe", r |-> BrokenRecipe]
    /\ submits.outcome = [k |-> "recipe", r |-> SoupRecipe]
    /\ output = <<TryAgainNote>>
    /\ status = [message |-> "item.trim is not a function", state |-> "error"]

\* C9 as stated: after a share click with a valid URL in the input, the
\* recipe parameter of the page's location equals the normalized input URL,
\* and exactly one of native share and clipboard copy is invoked with a link
\* carrying that value.
C9_ShareWritesLocation ==
    lastShare # None =>
        /\ lastShare.locAfter.recipe = lastShare.url
        /\ Len(lastShare.calls) = 1
        /\ lastShare.calls[1].link.recipe = lastShare.url

\* C9 amended: a share click leaves the page's location as it was (the
\* recipe parameter is written by a submission, and equals the URL of the
\* last submission that normalized); exactly one of native share (when
\* available) and clipboard copy (otherwise) is invoked, with a link that is
\* the page's location with its recipe parameter set to the normalized
\* input URL.
C9_ShareBuildsLinkOnly ==
    /\ lastShare # None =>
          /\ lastShare.locAfter = lastShare.locBefore
          /\ Len(lastShare.calls) = 1
          /\ lastShare.calls[1].via = IF shareAvailable THEN "native" ELSE "clipboard"
          /\ lastShare.calls[1].link.recipe = lastShare.url
          /\ lastShare.calls[1].link.path = lastShare.locBefore.path
    /\ submits.ok => loc.recipe = submits.url

\* A share click, native share available, for an input that differs from
\* the recipe parameter set by the earlier submission.
C9_Witness ==
    /\ shareAvailable
    /\ lastShare # None
    /\ submits.ok
    /\ lastShare.locBefore.recipe = submits.url
    /\ lastShare.url # submits.url
    /\ lastShare.calls[1].via = "native"
    /\ loc.recipe = submits.url

\* C10 as stated (the status parts up to a share action writing the status): once every extraction has
\* completed, status and panel show the outcome of the latest submission;
\* and while any extraction is in flight the status is "loading".
C10_LatestSubmissionWins ==
    /\ (inflight = {} /\ submits.outcome # None) =>
          /\ PanelShows(submits.outcome)
          /\ ~lastEvent.shareSince => StatusShows(submits.outcome)
    /\ (inflight # {} /\ ~lastEvent.shareSince) => status.state = "loading"

\* C10 amended: status and panel show the outcome of the extraction whose
\* response was handled last, whichever submission it belongs to; the page's
\* recipe parameter is that of the latest submission; the status is
\* "loading" and the panel empty from a submission until the next response
\* is handled (or a share action writes the status).
C10_LastHandledResponseWins ==
    /\ EndedLast =>
          /\ PanelShows(done.outcome)
          /\ ~lastEvent.shareSince => StatusShows(done.outcome)
    /\ lastEvent.k = "submitted" =>
          /\ output = <<>>
          /\ ~lastEvent.shareSince => status.state = "loading"
          /\ inflight # {}
    /\ submits.ok => loc.recipe = submits.url

\* Two overlapping extractions, the later one answered first with a recipe,
\* the earlier one answered last with a failure: the page shows the failure
\* although the later submission succeeded.
C10_Witness ==
    /\ submits.n = 2
    /\ inflight = {}
    /\ done.id = 1
    /\ done.outcome = [k |-> "rejected"]
    /\ submits.outcome = [k |-> "recipe", r |-> SoupRecipe]
    /\ output = <<TryAgainNote>>
    /\ status = [message |-> "Failed to fetch", state |-> "error"]
    /\ loc.recipe = submits.url

(***************************************************************************)
(* Claims about the endpoint.                                              *)
(***************************************************************************)
\* The url parameter is present, is an absolute URL, and its host, letter
\* case apart, is one of the publisher's two hostnames.
AllowListed(t) ==
    /\ t # None
    /\ t # EmptyText
    /\ t.scheme \in {"https", "http"}
    /\ t.host \in {"bonappetit.com", "www.bonappetit.com", "WWW.BONAPPETIT.COM"}

HandlerEnded == spc \in {"returned", "threw"}

\* C1: an outbound request is issued only for a present, absolute,
\* allow-listed url; every other request is answered 400 with no outbound
\* request; an accepted request issues exactly one outbound GET.
C1_OutboundOnlyForAllowListed ==
    /\ Len(outbound) <= 1
    /\ outbound # <<>> => AllowListed(target) /\ outbound[1].method = "GET"
    /\ (spc # "start" /\ ~AllowListed(target)) =>
           spc = "returned" /\ resp.status = 400 /\ outbound = <<>>
    /\ (spc # "start" /\ AllowListed(target)) => Len(outbound) = 1

\* A target on a host that merely contains the publisher's name, with the
\* publisher's name as userinfo, was refused with 400 and nothing was fetched.
C1_Witness ==
    /\ target = UrlText("https", "bonappetit.com", "bonappetit.com.evil.com", "/recipe/x")
    /\ spc = "returned"
    /\ resp.status = 400
    /\ outbound = <<>>
    /\ sent = resp

\* C2: once the upstream fetch of an accepted request has completed, the
\* status follows from the upstream outcome: a non-success status s gives 502
\* with s in the text body and no extraction; a fetched page without a Recipe
\* gives 422; a fetched page with one gives 200, the record as JSON body and
\* cache-control: no-store.  422 never answers an upstream failure, 502 never
\* a fetched page.
C2_StatusFollowsUpstream ==
    (spc = "returned" /\ upstream.fetch = "resolved") =>
        /\ upstream.status \notin 200..299 =>
              /\ resp.status = 502
              /\ resp.body.k = "text"
              /\ resp.body.embedded = upstream.status
              /\ recipe = None
        /\ upstream.status \in 200..299 =>
              /\ upstream.text = "resolved"
              /\ RecipePositions(html) = {} =>
                    resp.status = 422 /\ resp.body.k = "text"
              /\ RecipePositions(html) # {} =>
                    /\ resp.status = 200
                    /\ resp.body =
                          [k |-> "json",
                           v |-> NodeAtPosition(html, FirstPosition(RecipePositions(html)))]
                    /\ <<"cache-control", "no-store">> \in resp.headers
        /\ resp.status = 422 => upstream.status \in 200..299
        /\ resp.status = 502 => upstream.status \notin 200..299

\* The upstream answered 404 and the caller received 502 naming 404.
C2_Witness ==
    /\ spc = "returned"
    /\ upstream.fetch = "resolved"
    /\ upstream.status = 404
    /\ sent # None
    /\ sent.status = 502
    /\ sent.body.embedded = 404

\* C5: every upstream failure of an accepted request (a non-success status, a
\* rejected fetch, an unreadable body) ends with the handler returning 502.
C5_UpstreamFailureYields502 ==
    (/\ HandlerEnded
     /\ \/ upstream.fetch = "rejected"
        \/ upstream.text = "rejected"
        \/ upstream.fetch = "resolved" /\ upstream.status \notin 200..299) =>
        spc = "returned" /\ resp.status = 502

\* C7: the log record is written only after the handler has returned the
\* Response (the "response" event), it carries the target, the upstream
\* status and whether a recipe was found, and a throw of the logging step
\* changes nothing of what the caller receives.
C7_LogAfterResponse ==
    /\ \A i \in 1..Len(events) :
          events[i] = "log" => \E j \in 1..(i - 1) : events[j] = "response"
    /\ (logs # <<>> \/ logThrew) => spc = "returned" /\ resp # None
    /\ \A i \in 1..Len(logs) :
          /\ logs[i].target = outbound[1].url
          /\ logs[i].status = upstream.status
          /\ logs[i].recipeFound = (RecipePositions(html) # {})
    /\ (sent # None /\ upstream.text = "resolved") =>
          /\ sent = resp
          /\ sent.status = IF RecipePositions(html) = {} THEN 422 ELSE 200

\* The logging step threw after the handler had returned, and the caller
\* received the 200 response all the same.
C7_Witness ==
    /\ logThrew
    /\ events = <<"response", "log", "sent">>
    /\ sent.status = 200
    /\ sent.body.v = RecipeA

====
